---- MODULE Spec2Model ----
(***************************************************************************)
(* A model of crossfont's backend-independent core (src/lib.rs): the       *)
(* process-wide FontKey counter, the quantized Size type with its          *)
(* arithmetic, GlyphKey equality and the default RasterizedGlyph.          *)
(*                                                                         *)
(* Three specifications share the variables:                               *)
(*   SpecKey   - concurrent callers of FontKey::next()                     *)
(*   SpecSize  - Size::new, as_f32_pts, From<f32>, Add and Mul             *)
(*   SpecGlyph - GlyphKey comparison and RasterizedGlyph::default()        *)
(***************************************************************************)
EXTENDS Integers, Sequences, FiniteSets

VARIABLES
    TOKEN,      \* static TOKEN: AtomicUsize (FontKey::next)
    pc,         \* per caller: "idle" or "fetched" (between fetch_add and return)
    fetched,    \* per caller: the usize value its fetch_add returned
    issued,     \* history: the token of each fetch_add, in the order of the increments
    returned,   \* history: how many times each token value has been returned
    self,       \* the Size receiver (its stored i16)
    src,        \* the f32 self was built from by Size::new, or NoF32
    other,      \* the right-hand operand: a Size or an f32 (T: Into<Size>)
    op,         \* the last Size operation applied
    res,        \* its outcome when it yields a Size (or panics)
    pts,        \* its outcome when it yields an f32
    keyA,       \* a GlyphKey
    keyB,       \* the GlyphKey it is compared with
    changed,    \* the fields in which keyB was made to differ from keyA
    eqRes,      \* the result of keyA == keyB
    glyph       \* a RasterizedGlyph, or NoGlyph before one is built

vars == <<TOKEN, pc, fetched, issued, returned, self, src, other, op, res, pts,
          keyA, keyB, changed, eqRes, glyph>>

keyVars == <<TOKEN, pc, fetched, issued, returned>>
sizeVars == <<self, src, other, op, res, pts>>
glyphVars == <<keyA, keyB, changed, eqRes, glyph>>

RECURSIVE Pow2(_)
Pow2(n) == IF n = 0 THEN 1 ELSE 2 * Pow2(n - 1)

Abs(x) == IF x < 0 THEN -x ELSE x

(***************************************************************************)
(* FontKey::next().  The widths are scaled down so that the counter can be *)
(* driven through them: usize has UsizeBits bits (64 on the usual target)  *)
(* and FontKey.token has TokenBits bits (u32).                             *)
(***************************************************************************)
TokenBits == 2
UsizeBits == 3
NumCallers == 2
ExtraCalls == 3

Callers == 1..NumCallers
UsizeMod == Pow2(UsizeBits)
TokenMod == Pow2(TokenBits)
MaxCalls == TokenMod + ExtraCalls

\* `usize as u32` (the `as _` of line 100): keep the low bits.
AsU32(v) == v % TokenMod

\* AtomicUsize::fetch_add(1, SeqCst): wraps around on overflow.
FetchAddNew(v) == (v + 1) % UsizeMod

\* FontKey { token: ... }
FontKey(v) == [token |-> AsU32(v)]

KeyInit ==
    /\ TOKEN = 0
    /\ pc = [c \in Callers |-> "idle"]
    /\ fetched = [c \in Callers |-> 0]
    /\ issued = <<>>
    /\ returned = [t \in 0..(TokenMod - 1) |-> 0]

\* The atomic read-modify-write of FontKey::next(): one indivisible step.
FetchAdd(c) ==
    /\ pc[c] = "idle"
    /\ Len(issued) < MaxCalls
    /\ fetched' = [fetched EXCEPT ![c] = TOKEN]
    /\ TOKEN' = FetchAddNew(TOKEN)
    /\ issued' = Append(issued, FontKey(TOKEN).token)
    /\ pc' = [pc EXCEPT ![c] = "fetched"]
    /\ UNCHANGED <<returned, sizeVars, glyphVars>>

\* The rest of FontKey::next(): truncate the fetched value and return the key.
Return(c) ==
    /\ pc[c] = "fetched"
    /\ returned' = [returned EXCEPT ![FontKey(fetched[c]).token] = @ + 1]
    /\ pc' = [pc EXCEPT ![c] = "idle"]
    /\ UNCHANGED <<TOKEN, fetched, issued, sizeVars, glyphVars>>

(***************************************************************************)
(* Size.  An f32 is modelled exactly: a finite value is n / Den for an     *)
(* integer n (Den a power of two, so halving and doubling are exact as     *)
(* they are in binary floating point), and NaN and the infinities are      *)
(* kept apart.                                                             *)
(***************************************************************************)
I16Min == -32768
I16Max == 32767
I16Mod == 65536

FracBits == 3
MaxPts == 2
MaxMag == 3

Den == Pow2(FracBits)

Num(n) == [k |-> "num", n |-> n]
NaN == [k |-> "nan", n |-> 0]
PosInf == [k |-> "inf", n |-> 1]
NegInf == [k |-> "inf", n |-> -1]
NoF32 == [k |-> "none", n |-> 0]

\* Size::factor()
Size_factor == 2

\* f32 * f32 by the (integral) factor: exact for the finite values of the model.
F32MulInt(x, m) ==
    IF x.k = "num" THEN Num(x.n * m) ELSE x

\* f32 / f32 by the (integral) factor.  Den is even, so a value that is a
\* multiple of 1/2 keeps an exact quotient.
F32DivInt(x, m) ==
    IF x.k = "num" THEN Num(x.n \div m) ELSE x

\* f32::from(i16): every i16 is an f32.
F32FromI16(v) == Num(v * Den)

\* Integer division rounding toward zero (\div rounds toward minus infinity).
TruncDiv(a, b) == IF a >= 0 THEN a \div b ELSE -((-a) \div b)

\* A cast that rounds toward minus infinity instead of toward zero.
F32AsI16Floor(x) ==
    IF x.k = "nan" THEN 0
    ELSE IF x.k = "inf" THEN (IF x.n > 0 THEN I16Max ELSE I16Min)
    ELSE LET t == x.n \div Den
         IN  IF t > I16Max THEN I16Max ELSE IF t < I16Min THEN I16Min ELSE t

\* `f32 as i16`: the fractional part is dropped (rounding toward zero), NaN
\* becomes 0 and a value out of range becomes the nearest bound of i16.
F32AsI16(x) ==
    IF x.k = "nan" THEN 0
    ELSE IF x.k = "inf" THEN (IF x.n > 0 THEN I16Max ELSE I16Min)
    ELSE LET t == TruncDiv(x.n, Den)
         IN  IF t > I16Max THEN I16Max ELSE IF t < I16Min THEN I16Min ELSE t

\* Size::new without the scale factor: `Size(size as i16)`.
Size_new_unscaled(size) == F32AsI16(size)

\* Size::new(size) = Size((size * Size::factor()) as i16)
Size_new(size) == F32AsI16(F32MulInt(size, Size_factor))

\* as_f32_pts that forgets the factor: `f32::from(self.0)`.
Size_as_f32_pts_unscaled(s) == F32FromI16(s)

\* Size::as_f32_pts(self) = f32::from(self.0) / Size::factor()
Size_as_f32_pts(s) == F32DivInt(F32FromI16(s), Size_factor)

\* impl From<f32> for Size
From_f32(float) == Size_new(float)

\* An operand of Add and Mul: a Size, or an f32 (T: Into<Size>).
SizeArg(v) == [t |-> "size", v |-> v, f |-> NoF32]
F32Arg(x) == [t |-> "f32", v |-> 0, f |-> x]

\* other.into(): a Size is itself, an f32 goes through From<f32>.
Into(o) == IF o.t = "size" THEN o.v ELSE From_f32(o.f)

\* The outcome of an operation that yields a Size.
Value(v) == [kind |-> "size", v |-> v]
Panic == [kind |-> "panic", v |-> 0]
NoRes == [kind |-> "none", v |-> 0]

\* Two's-complement wrap to 16 bits.
WrapI16(v) == ((v - I16Min) % I16Mod) + I16Min

FitsI16(v) == I16Min <= v /\ v <= I16Max

\* i16::wrapping_add in place of saturating_add.
WrappingAdd(x, y) == WrapI16(x + y)

\* i16::saturating_add
SaturatingAdd(x, y) ==
    LET s == x + y
    IN  IF s > I16Max THEN I16Max ELSE IF s < I16Min THEN I16Min ELSE s

\* impl Add<T> for Size: Size(self.0.saturating_add(other.into().0))
Size_add(x, y) == SaturatingAdd(x, y)

\* A multiplication that saturates as the addition does.
Size_mul_saturating(x, y) ==
    LET p == x * y
    IN  {Value(IF p > I16Max THEN I16Max ELSE IF p < I16Min THEN I16Min ELSE p)}

\* A multiplication of the point values: (x/2) * (y/2) points, stored as x*y/2.
Size_mul_points(x, y) ==
    LET p == TruncDiv(x * y, Size_factor)
    IN  IF FitsI16(p) THEN {Value(p)} ELSE {Panic, Value(WrapI16(p))}

\* impl Mul<T> for Size: Size(self.0 * other.into().0).  The `*` of i16 panics
\* on overflow where overflow checks are compiled in (debug builds) and wraps
\* where they are not (release builds): both outcomes are possible.
Size_mul(x, y) ==
    LET p == x * y
    IN  IF FitsI16(p) THEN {Value(p)} ELSE {Panic, Value(WrapI16(p))}

\* The stored integers the model starts from: small ones, the ones next to
\* the bounds, and pairs whose product leaves the 16-bit range.
WrapOperands == {128, 256, -256, 197, 499}
SizeVals ==
    (-MaxMag..MaxMag) \cup {I16Min, I16Min + 1, I16Max - 1, I16Max} \cup WrapOperands

\* The f32 inputs: every multiple of 1/Den up to MaxPts points, the values
\* whose double is next to a bound of i16 (inside and outside), NaN and the
\* infinities.
HiN == (I16Max * Den) \div Size_factor
LoN == (I16Min * Den) \div Size_factor
F32Vals ==
    {Num(n) : n \in (-(MaxPts * Den))..(MaxPts * Den)}
        \cup {Num(n) : n \in (HiN - Den)..(HiN + Den)}
        \cup {Num(n) : n \in (LoN - Den)..(LoN + Den)}
        \cup {NaN, PosInf, NegInf}

Operands == {SizeArg(v) : v \in SizeVals} \cup {F32Arg(x) : x \in F32Vals}

\* A receiver and an operand, nothing applied yet.
SizeInit ==
    /\ self \in SizeVals
    /\ src = NoF32
    /\ other \in Operands
    /\ op = "none"
    /\ res = NoRes
    /\ pts = NoF32

\* self = Size::new(other), for an f32 operand
DoNew ==
    /\ other.t = "f32"
    /\ self' = Size_new(other.f)
    /\ src' = other.f
    /\ op' = "new"
    /\ res' = NoRes
    /\ pts' = NoF32
    /\ UNCHANGED <<other, keyVars, glyphVars>>

\* self.as_f32_pts()
DoAsPts ==
    /\ pts' = Size_as_f32_pts(self)
    /\ op' = "as_f32_pts"
    /\ res' = NoRes
    /\ UNCHANGED <<self, src, other, keyVars, glyphVars>>

\* Size::from(self.as_f32_pts()): the points just read are quantized again.
DoFrom ==
    /\ op = "as_f32_pts"
    /\ res' = Value(From_f32(pts))
    /\ op' = "from"
    /\ UNCHANGED <<self, src, other, pts, keyVars, glyphVars>>

\* self + other
DoAdd ==
    /\ res' = Value(Size_add(self, Into(other)))
    /\ op' = "add"
    /\ pts' = NoF32
    /\ UNCHANGED <<self, src, other, keyVars, glyphVars>>

\* self * other
DoMul ==
    /\ \E r \in Size_mul(self, Into(other)) : res' = r
    /\ op' = "mul"
    /\ pts' = NoF32
    /\ UNCHANGED <<self, src, other, keyVars, glyphVars>>

(***************************************************************************)
(* GlyphKey and RasterizedGlyph.                                           *)
(***************************************************************************)
Chars == {"a", "b", " "}
FontKeys == {[token |-> t] : t \in 0..(TokenMod - 1)}
GlyphSizes == -MaxMag..MaxMag
GlyphKeys == [character : Chars, font_key : FontKeys, size : GlyphSizes]

\* #[derive(PartialEq)] on FontKey: the tokens are compared.
FontKey_eq(a, b) == a.token = b.token

\* #[derive(PartialEq)] on Size: the stored integers are compared.
Size_eq(a, b) == a = b

\* An equality that leaves the size out.
GlyphKey_eq_no_size(a, b) ==
    /\ a.character = b.character
    /\ FontKey_eq(a.font_key, b.font_key)

\* #[derive(PartialEq)] on GlyphKey: field by field, all three.
GlyphKey_eq(a, b) ==
    /\ a.character = b.character
    /\ FontKey_eq(a.font_key, b.font_key)
    /\ Size_eq(a.size, b.size)

Rgb(bytes) == [variant |-> "Rgb", bytes |-> bytes]
Rgba(bytes) == [variant |-> "Rgba", bytes |-> bytes]

\* A default whose buffer is the other variant.
RasterizedGlyph_default_rgba ==
    [character |-> " ", width |-> 0, height |-> 0, top |-> 0, left |-> 0,
     advance |-> <<0, 0>>, buffer |-> Rgba(<<>>)]

\* impl Default for RasterizedGlyph
RasterizedGlyph_default ==
    [character |-> " ", width |-> 0, height |-> 0, top |-> 0, left |-> 0,
     advance |-> <<0, 0>>, buffer |-> Rgb(<<>>)]

\* The fields in which b was made to differ from a, after field f was set to v.
Changed(old, a, f, v) ==
    IF a[f] = v THEN old \ {f} ELSE old \cup {f}

GlyphInit ==
    /\ keyA \in GlyphKeys
    /\ keyB = keyA
    /\ changed = {}
    /\ eqRes = GlyphKey_eq(keyA, keyB)
    /\ glyph = <<>>

\* GlyphKey { character: c, ..keyB }, compared with keyA
WithCharacter ==
    \E c \in Chars :
        /\ keyB' = [keyB EXCEPT !.character = c]
        /\ changed' = Changed(changed, keyA, "character", c)
        /\ eqRes' = GlyphKey_eq(keyA, keyB')
        /\ UNCHANGED <<keyA, glyph, keyVars, sizeVars>>

\* GlyphKey { font_key: k, ..keyB }, compared with keyA
WithFontKey ==
    \E k \in FontKeys :
        /\ keyB' = [keyB EXCEPT !.font_key = k]
        /\ changed' = Changed(changed, keyA, "font_key", k)
        /\ eqRes' = GlyphKey_eq(keyA, keyB')
        /\ UNCHANGED <<keyA, glyph, keyVars, sizeVars>>

\* GlyphKey { size: s, ..keyB }, compared with keyA
WithSize ==
    \E s \in GlyphSizes :
        /\ keyB' = [keyB EXCEPT !.size = s]
        /\ changed' = Changed(changed, keyA, "size", s)
        /\ eqRes' = GlyphKey_eq(keyA, keyB')
        /\ UNCHANGED <<keyA, glyph, keyVars, sizeVars>>

\* RasterizedGlyph::default()
DefaultGlyph ==
    /\ glyph' = <<RasterizedGlyph_default>>
    /\ UNCHANGED <<keyA, keyB, changed, eqRes, keyVars, sizeVars>>

(***************************************************************************)
(* The specifications.  Each drives one part and leaves the others at rest.*)
(***************************************************************************)
KeyIdle ==
    /\ TOKEN = 0
    /\ pc = [c \in Callers |-> "idle"]
    /\ fetched = [c \in Callers |-> 0]
    /\ issued = <<>>
    /\ returned = [t \in 0..(TokenMod - 1) |-> 0]

SizeIdle ==
    /\ self = 0
    /\ src = NoF32
    /\ other = SizeArg(0)
    /\ op = "none"
    /\ res = NoRes
    /\ pts = NoF32

GlyphIdle ==
    /\ keyA = [character |-> " ", font_key |-> [token |-> 0], size |-> 0]
    /\ keyB = keyA
    /\ changed = {}
    /\ eqRes = TRUE
    /\ glyph = <<>>

InitKey == KeyInit /\ SizeIdle /\ GlyphIdle
InitSize == KeyIdle /\ SizeInit /\ GlyphIdle
InitGlyph == KeyIdle /\ SizeIdle /\ GlyphInit

NextKey == \E c \in Callers : FetchAdd(c) \/ Return(c)
NextSize == DoNew \/ DoAsPts \/ DoFrom \/ DoAdd \/ DoMul
NextGlyph == WithCharacter \/ WithFontKey \/ WithSize \/ DefaultGlyph

SpecKey == InitKey /\ [][NextKey]_vars
SpecSize == InitSize /\ [][NextSize]_vars
SpecGlyph == InitGlyph /\ [][NextGlyph]_vars

(***************************************************************************)
(* FontKey::next()                                                         *)
(***************************************************************************)

\* C1: the keys returned by any number of calls to FontKey::next(), by any
\* callers in any interleaving, are pairwise distinct: no token value is
\* returned twice.
C1_KeysPairwiseDistinct ==
    \A t \in DOMAIN returned : returned[t] <= 1

\* C2: the k-th increment of the counter returns token k-1, so the tokens
\* listed in the order of the increments increase strictly, without gaps.
C2_KthIncrementReturnsKMinusOne ==
    \A k \in 1..Len(issued) : issued[k] = k - 1

(***************************************************************************)
(* Size                                                                    *)
(***************************************************************************)

\* The doubled value of a finite f32 lies within the i16 range.
InRange(x) ==
    /\ x.k = "num"
    /\ I16Min * Den <= 2 * x.n
    /\ 2 * x.n <= I16Max * Den

\* C3: a + b is the Size whose stored integer is the sum of the stored
\* integers clamped to [-32768, 32767]; the maximum Size plus a positive Size
\* is the maximum Size, never a negative one.
C3_AddSaturates ==
    (op = "add") =>
        LET x == self
            y == Into(other)
        IN  /\ res.kind = "size"
            /\ (x + y > 32767 => res.v = 32767)
            /\ (x + y < -32768 => res.v = -32768)
            /\ (-32768 <= x + y /\ x + y <= 32767 => res.v = x + y)
            /\ (x = 32767 /\ y > 0 => res.v = 32767 /\ res.v >= 0)

C3_Witness ==
    /\ op = "add"
    /\ self = 32767
    /\ other.t = "size"
    /\ other.v > 0
    /\ res = Value(32767)

\* C4: for p whose double lies within the i16 range, Size::new(p) stores
\* p * 2 rounded toward zero, for negative p as for positive p.
C4_NewTruncatesTowardZero ==
    (op = "new" /\ InRange(src)) =>
        LET m == 2 * src.n
        IN  /\ (m >= 0 => self * Den <= m /\ m < (self + 1) * Den)
            /\ (m <= 0 => (self - 1) * Den < m /\ m <= self * Den)

C4_Witness ==
    /\ op = "new"
    /\ InRange(src)
    /\ src.n < 0
    /\ (2 * src.n) % Den # 0
    /\ self < 0

\* C5: for p in the representable range, Size::new(p).as_f32_pts() differs
\* from p by at most 0.25 points.
C5_ErrorAtMostQuarterPoint ==
    (op = "as_f32_pts" /\ InRange(src)) =>
        4 * Abs(pts.n - src.n) <= Den

\* C5, amended: for p in the representable range, Size::new(p).as_f32_pts()
\* differs from p by less than 0.5 points (1 / Size::factor()).
C5_ErrorBelowHalfPoint ==
    (op = "as_f32_pts" /\ InRange(src)) =>
        /\ pts.k = "num"
        /\ 2 * Abs(pts.n - src.n) < Den

C5_Witness ==
    /\ op = "as_f32_pts"
    /\ InRange(src)
    /\ 4 * Abs(pts.n - src.n) > Den

\* C6: as_f32_pts returns exactly the stored integer divided by 2, and
\* quantizing it again gives the same Size: Size::new(s.as_f32_pts()) = s,
\* also for an s that is itself Size::new(p).
C6_QuantizationIdempotent ==
    /\ (op = "as_f32_pts" => pts.k = "num" /\ 2 * pts.n = self * Den)
    /\ (op = "from" => res = Value(self))

C6_Witness ==
    /\ op = "from"
    /\ InRange(src)
    /\ (2 * src.n) % Den # 0
    /\ self % 2 # 0
    /\ res = Value(self)

\* C7: multiplication does not saturate: a result is the 16-bit product of
\* the stored integers, and a product outside [-32768, 32767] is not clamped
\* to the nearest bound.
C7_MulDoesNotSaturate ==
    (op = "mul") =>
        LET p == self * Into(other)
        IN  /\ res.kind \in {"size", "panic"}
            /\ (res.kind = "size" =>
                    /\ -32768 <= res.v /\ res.v <= 32767
                    /\ (res.v - p) % 65536 = 0)
            /\ (res.kind = "panic" => p > 32767 \/ p < -32768)
            /\ (p > 32767 /\ (p - 32767) % 65536 # 0 => res # Value(32767))
            /\ (p < -32768 /\ (p + 32768) % 65536 # 0 => res # Value(-32768))

C7_Witness ==
    /\ op = "mul"
    /\ self = 32767
    /\ other = SizeArg(32767)
    /\ res = Value(1)

\* C10: multiplication multiplies the stored half-point integers: when the
\* product fits, (a * b).as_f32_pts() = 2 * a.as_f32_pts() * b.as_f32_pts(),
\* so multiplying by the scalar 1.0 doubles the point value.
C10_MulOfHalfPoints ==
    (op = "mul" /\ FitsI16(self * Into(other))) =>
        /\ res.kind = "size"
        /\ LET a == Size_as_f32_pts(self).n
               b == Size_as_f32_pts(Into(other)).n
               r == Size_as_f32_pts(res.v).n
           IN  /\ r * Den = 2 * a * b
               /\ (other = F32Arg(Num(Den)) => r = 2 * a)

C10_Witness ==
    /\ op = "mul"
    /\ other = F32Arg(Num(Den))
    /\ self # 0
    /\ res = Value(2 * self)
    /\ Size_as_f32_pts(res.v).n = 2 * Size_as_f32_pts(self).n

(***************************************************************************)
(* GlyphKey and RasterizedGlyph                                            *)
(***************************************************************************)

\* C8: two GlyphKeys are equal if and only if character, font_key and size
\* are all equal; a key changed in any single field is not equal to the
\* original.
C8_GlyphKeyEquality ==
    /\ eqRes <=> (/\ keyA.character = keyB.character
                  /\ keyA.font_key.token = keyB.font_key.token
                  /\ keyA.size = keyB.size)
    /\ (Cardinality(changed) = 1 => eqRes = FALSE)

C8_Witness ==
    /\ changed = {"size"}
    /\ keyA.character = keyB.character
    /\ keyA.font_key = keyB.font_key
    /\ eqRes = FALSE

\* C9: RasterizedGlyph::default() has width, height, top and left 0, advance
\* (0, 0) and a buffer that is the Rgb variant holding no bytes.
C9_DefaultGlyphIsBlankRgb ==
    (Len(glyph) = 1) =>
        LET g == glyph[1]
        IN  /\ g.width = 0
            /\ g.height = 0
            /\ g.top = 0
            /\ g.left = 0
            /\ g.advance = <<0, 0>>
            /\ g.buffer.variant = "Rgb"
            /\ g.buffer.variant # "Rgba"
            /\ Len(g.buffer.bytes) = 0

C9_Witness ==
    /\ Len(glyph) = 1
    /\ glyph[1].buffer = Rgb(<<>>)

====
